---- MODULE Spec2Model ----
(***************************************************************************)
(* Model of the todo list application: the data access layer               *)
(* (src/services/api.js, TodoService), the two react-query queries and     *)
(* the mutations of TodoList / TodoDetail (src/components/TodoList.jsx),   *)
(* and the handlers of TodoItem / CreateTodo that issue the writes.        *)
(*                                                                         *)
(* A step of a call is one access to shared state: a read or a write of    *)
(* local storage, or the settling of a query.  The response of a remote    *)
(* request is taken together with the storage access that follows it: the  *)
(* remote API keeps no state, so nothing can tell the two moments apart.   *)
(***************************************************************************)
EXTENDS Integers, Sequences, FiniteSets, TLC

(***************************************************************************)
(* Bounds of the model.                                                    *)
(***************************************************************************)
\* number of tasks the remote API serves (identifiers 1..NRemote)
NRemote == 2
\* number of milliseconds Date.now() may advance after the session starts
MaxClock == 1
\* number of data-access calls that may be in flight together
MaxCalls == 2
\* number of writes the user issues in one behaviour
MaxWrites == 2
\* number of operations (a fetch or a write, with its retries) that meet a
\* failing request or a failing storage access in one behaviour
MaxFaults == 1
\* number of times the user opens the detail route in one behaviour
MaxNavs == 1
MaxTodos == 23
MaxSearchLen == 2
MaxPage == 4

(***************************************************************************)
(* Program constants.                                                      *)
(***************************************************************************)
\* Date.now() when the session starts: far above every remote identifier
Epoch == 100
\* retry of the queries (QueryClient defaultOptions.queries.retry)
QueryRetry == 2
\* the mutations given the retry count of the queries
MutationRetryOfQueries == QueryRetry
\* retry of the mutations (QueryClient defaultOptions.mutations.retry)
MutationRetry == 1
\* retry of the detail query (TodoDetail useQuery retry)
DetailRetry == 1
\* userId createTodo posts
DefaultUserId == 1
TodosPerPage == 10

(***************************************************************************)
(* Values.                                                                 *)
(***************************************************************************)
\* an optional value is a sequence of length 0 or 1
None == <<>>
Some(v) == <<v>>
IsSome(o) == Len(o) = 1
Get(o) == o[1]

\* titles are sequences of characters
TitleA == <<"b", "u", "y">>
TitleB == <<"r", "u", "n">>
\* the titles that reach TodoService
Titles == {TitleA, TitleB}

\* String.prototype.trim
RECURSIVE TrimStart(_)
TrimStart(str) ==
    IF str # <<>> /\ Head(str) = " " THEN TrimStart(Tail(str)) ELSE str

RECURSIVE TrimEnd(_)
TrimEnd(str) ==
    IF str # <<>> /\ str[Len(str)] = " "
    THEN TrimEnd(SubSeq(str, 1, Len(str) - 1)) ELSE str

Trim(str) == TrimEnd(TrimStart(str))

\* the shortest title CreateTodo.handleSubmit accepts
MinTitleLength == 3

\* what the user types into the create form and the item editor: nothing,
\* a blank, a title that is too short for the form, a title, a padded title
TypedTitles ==
    {<<>>, <<" ">>, <<"g", "o">>, TitleA, <<" ">> \o TitleB \o <<" ">>}

\* the item editor has no minimum length; the short title is left to the form
EditedTitles == TypedTitles \ {<<"g", "o">>}

\* the messages CreateTodo shows
NoError == ""
EmptyTitleError == "Please enter a todo title"
ShortTitleError == "Todo title must be at least 3 characters long"
CreateFailedError == "Failed to create todo. Please try again."

RemoteIds == 1..NRemote
Clock == (Epoch + 1)..(Epoch + 1 + MaxClock)

\* the object spread { ...a, ...b }
Merge(a, b) ==
    [f \in (DOMAIN a) \cup (DOMAIN b) |-> IF f \in DOMAIN b THEN b[f] ELSE a[f]]

(***************************************************************************)
(* The remote API (JSONPlaceholder): a fixed list, writes are simulated.   *)
(***************************************************************************)
RemoteTodo(i) ==
    [id |-> i, title |-> IF i % 2 = 1 THEN TitleA ELSE TitleB,
     completed |-> (i % 2 = 0), userId |-> DefaultUserId]

\* GET /todos
RemoteTodos == [i \in RemoteIds |-> RemoteTodo(i)]

\* GET /todos/:id answers only for the identifiers it serves
RemoteHas(id) == id \in RemoteIds

\* POST /todos answers the posted body with the next remote identifier
RemotePost(body) == Merge(body, [id |-> NRemote + 1])

\* PUT /todos/:id answers the sent body under the identifier of the path
RemotePut(id, body) == Merge(body, [id |-> id])

(***************************************************************************)
(* Local storage (localforage), keyed by `todo-${id}`.                     *)
(***************************************************************************)
RECURSIVE SortedIds(_)
SortedIds(S) ==
    IF S = {} THEN <<>>
    ELSE LET m == CHOOSE a \in S : \A b \in S : a <= b
         IN  <<m>> \o SortedIds(S \ {m})

\* getLocalTodos: iterate() visits the keys in key order and pushes the values
LocalValues(s) ==
    LET ids == SortedIds(DOMAIN s) IN [k \in 1..Len(ids) |-> s[ids[k]]]

\* setItem(`todo-${id}`, v)
SetItem(s, id, v) == [k \in (DOMAIN s) \cup {id} |-> IF k = id THEN v ELSE s[k]]

\* clear() in the place of removeItem
RemoveItemClear(s, id) == [k \in {} |-> s[k]]

\* removeItem(`todo-${id}`)
RemoveItem(s, id) == [k \in (DOMAIN s) \ {id} |-> s[k]]

EmptyStore == [k \in {} |-> None]

(***************************************************************************)
(* State.                                                                  *)
(***************************************************************************)
VARIABLES
    store,      \* local storage: identifier -> stored task
    now,        \* Date.now()
    calls,      \* the TodoService writes in flight, one per slot
    writes,     \* number of writes issued so far
    faults,     \* number of operations that met a failure so far
    navs,       \* number of times the detail route was opened so far
    listQ,      \* the ['todos'] query of TodoList
    todos,      \* data of the ['todos'] query: the in-memory merged collection
    route,      \* "list" (path /) or "detail" (path /todo/:id)
    detailQ,    \* the ['todo', id] query of TodoDetail
    itemBusy,   \* identifiers whose mounted TodoItem has isLoading = true
    detailBusy, \* isUpdating of the mounted TodoDetail
    ret,        \* outcome of the write that settled in the last step, if any
    edits,      \* remote-origin tasks edited so far: identifier -> fields sent
    searchQuery,  \* TodoList searchQuery, a sequence of characters
    filterStatus, \* TodoList filterStatus: "all", "completed" or "pending"
    currentPage,  \* TodoList currentPage
    pageReset,    \* the page-reset effect is due after the last render
    isFormOpen,   \* CreateTodo isFormOpen
    title,        \* CreateTodo title, as typed
    error,        \* CreateTodo error, a message or NoError
    submitting    \* handleSubmit of the mounted CreateTodo awaits onCreateTodo

\* the data layer, the queries and the writes
dataVars == <<store, now, calls, writes, faults, navs, listQ, todos, route,
          detailQ, itemBusy, detailBusy, ret, edits>>

\* the search, filter and pagination state of TodoList
view == <<searchQuery, filterStatus, currentPage, pageReset>>

\* the state of the create form
form == <<isFormOpen, title, error, submitting>>

vars == <<store, now, calls, writes, faults, navs, listQ, todos, route,
          detailQ, itemBusy, detailBusy, ret, edits,
          searchQuery, filterStatus, currentPage, pageReset,
          isFormOpen, title, error, submitting>>

Slots == 1..MaxCalls

IdleCall ==
    [op |-> "idle", src |-> "none", id |-> 0, data |-> None, pc |-> "idle",
     resp |-> None, localTodo |-> None, attempt |-> 0, inst |-> FALSE]

\* remote: "ok" or "failed", what became of the remote request of the write
NoRet ==
    [op |-> "none", id |-> 0, ok |-> FALSE, value |-> None, data |-> None,
     remote |-> "none"]

\* a task written by an earlier session (local storage outlives the session)
EarlierTodo ==
    [id |-> Epoch, title |-> TitleB, completed |-> FALSE,
     userId |-> DefaultUserId, isLocal |-> TRUE]

\* local storage as the session finds it
InitStore == SetItem(EmptyStore, Epoch, EarlierTodo)

\* a query as useQuery creates it on first mount: no data, first fetch started
FetchingList ==
    [status |-> "loading", fetching |-> TRUE, loc |-> "pending", locRes |-> <<>>,
     locOk |-> TRUE, snap |-> {}, since |-> EmptyStore,
     failures |-> 0, hasData |-> FALSE, invalid |-> FALSE]

NoDetail ==
    [id |-> 0, status |-> "loading", fetching |-> FALSE, failures |-> 0,
     data |-> None, invalid |-> FALSE, since |-> EmptyStore]

Init ==
    /\ store = InitStore
    /\ now = Epoch + 1
    /\ calls = [s \in Slots |-> IdleCall]
    /\ writes = 0
    /\ faults = 0
    /\ navs = 0
    /\ listQ = FetchingList
    /\ todos = <<>>
    /\ route = "list"
    /\ detailQ = NoDetail
    /\ itemBusy = {}
    /\ detailBusy = FALSE
    /\ ret = NoRet
    /\ edits = EmptyStore
    /\ searchQuery = <<>>
    /\ filterStatus = "all"
    /\ currentPage = 1
    /\ pageReset = FALSE
    /\ isFormOpen = FALSE
    /\ title = <<>>
    /\ error = NoError
    /\ submitting = FALSE

(***************************************************************************)
(* What the views render.                                                  *)
(***************************************************************************)
\* TodoList: isLoading, then error, then the list
ListView ==
    IF listQ.status = "loading" THEN "loading"
    ELSE IF listQ.status = "error" THEN "error"
    ELSE "list"

\* TodoDetail: isLoading, then error ("Todo not found"), then the task
DetailView ==
    IF detailQ.status = "loading" THEN "loading"
    ELSE IF detailQ.status = "error" THEN "error"
    ELSE "task"

TodoIds(ts) == {ts[k].id : k \in 1..Len(ts)}

\* a request or a storage access of an operation fails; first: the operation
\* had not failed before
Fault(first) ==
    IF first THEN faults < MaxFaults /\ faults' = faults + 1
    ELSE UNCHANGED faults

\* Date.now() never goes back
Later == now..(Epoch + 1 + MaxClock)

(***************************************************************************)
(* The ['todos'] query: fetch-all.                                         *)
(***************************************************************************)
\* the query starts (or restarts) its queryFn: Promise.all of the two reads
\* since: the edits of remote-origin tasks that precede the fetch
StartFetch(q, e) ==
    [q EXCEPT !.fetching = TRUE, !.loc = "pending", !.locRes = <<>>,
              !.locOk = TRUE, !.snap = {}, !.since = e,
              !.failures = 0, !.invalid = FALSE,
              !.status = IF q.hasData THEN @ ELSE "loading"]

\* queryClient.invalidateQueries(['todos']): an observed query refetches,
\* an unobserved one is marked and refetches when TodoList mounts again
InvalidateList(q, r, e) ==
    IF r = "list" THEN StartFetch(q, e) ELSE [q EXCEPT !.invalid = TRUE]

\* Combine with the two sources swapped
CombineLocalFirst(apiTodos, localTodos) == localTodos \o apiTodos

\* [...apiTodos, ...localTodos]
Combine(apiTodos, localTodos) == apiTodos \o localTodos

\* the TodoItems whose task is no longer rendered unmount
UnmountItems(cs, keep) ==
    [s \in Slots |->
        IF cs[s].src = "item" /\ cs[s].id \notin keep
        THEN [cs[s] EXCEPT !.inst = FALSE] ELSE cs[s]]

\* TodoService.getLocalTodos returns the values iterate() visited
GetLocalTodosReturn ==
    /\ listQ.fetching /\ listQ.loc = "pending"
    /\ listQ' = [listQ EXCEPT !.loc = "done", !.locRes = LocalValues(store),
                              !.snap = DOMAIN store]
    /\ ret' = NoRet
    /\ UNCHANGED <<store, now, calls, writes, faults, navs, todos, route,
                   detailQ, itemBusy, detailBusy, edits>>
    /\ UNCHANGED <<view, form>>

\* localforage.iterate threw: TodoService.getLocalTodos logs and returns []
GetLocalTodosCatch ==
    /\ listQ.fetching /\ listQ.loc = "pending"
    /\ Fault(TRUE)
    /\ listQ' = [listQ EXCEPT !.loc = "done", !.locRes = <<>>, !.locOk = FALSE,
                              !.snap = DOMAIN store]
    /\ ret' = NoRet
    /\ UNCHANGED <<store, now, calls, writes, navs, todos, route,
                   detailQ, itemBusy, detailBusy, edits>>
    /\ UNCHANGED <<view, form>>

\* TodoService.getAllTodos and getLocalTodos have both resolved: Promise.all
\* resolves and the query stores the merged collection
FetchAllResolve ==
    /\ listQ.fetching /\ listQ.loc = "done"
    /\ listQ' = [listQ EXCEPT !.status = "success", !.fetching = FALSE,
                              !.hasData = TRUE, !.invalid = FALSE,
                              !.loc = "idle", !.locRes = <<>>, !.locOk = TRUE,
                              !.snap = {}, !.since = EmptyStore, !.failures = 0]
    /\ todos' = Combine(RemoteTodos, listQ.locRes)
    /\ IF route = "list"
       THEN /\ itemBusy' = itemBusy \cap TodoIds(todos')
            /\ calls' = UnmountItems(calls, TodoIds(todos'))
       ELSE UNCHANGED <<itemBusy, calls>>
    /\ ret' = NoRet
    /\ UNCHANGED <<store, now, writes, faults, navs, route, detailQ, detailBusy,
                   edits>>
    /\ UNCHANGED <<view, form>>

\* CreateTodo unmounts with the list: the next one starts closed and empty
FormUnmounts ==
    /\ isFormOpen' = FALSE
    /\ title' = <<>>
    /\ error' = NoError
    /\ submitting' = FALSE

\* TodoService.getAllTodos throws 'Failed to fetch todos': Promise.all rejects;
\* the query retries QueryRetry times, then enters the error state
FetchAllReject ==
    /\ listQ.fetching
    /\ Fault(listQ.failures = 0)
    /\ IF listQ.failures < QueryRetry
       THEN /\ listQ' = [listQ EXCEPT !.failures = @ + 1, !.loc = "pending",
                                      !.locRes = <<>>, !.locOk = TRUE,
                                      !.snap = {}]
            /\ UNCHANGED <<itemBusy, calls>>
       ELSE /\ listQ' = [listQ EXCEPT !.status = "error", !.fetching = FALSE,
                                      !.loc = "idle", !.locRes = <<>>,
                                      !.locOk = TRUE,
                                      !.snap = {}, !.since = EmptyStore,
                                      !.failures = 0]
            /\ IF route = "list"
               THEN itemBusy' = {} /\ calls' = UnmountItems(calls, {})
               ELSE UNCHANGED <<itemBusy, calls>>
    /\ IF listQ.failures < QueryRetry \/ route # "list"
       THEN UNCHANGED form
       ELSE FormUnmounts
    /\ ret' = NoRet
    /\ UNCHANGED <<store, now, writes, navs, todos, route, detailQ, detailBusy,
                   edits>>
    /\ UNCHANGED view

\* a "Try Again" button that is offered only over a cached collection
ListTryAgainOverData ==
    /\ route = "list" /\ ListView = "error"
    /\ ~listQ.fetching /\ listQ.hasData
    /\ listQ' = StartFetch(listQ, edits)
    /\ ret' = NoRet
    /\ UNCHANGED <<store, now, calls, writes, faults, navs, todos, route,
                   detailQ, itemBusy, detailBusy, edits>>
    /\ UNCHANGED <<view, form>>

\* the "Try Again" button of the error state: refetch
ListTryAgain ==
    /\ route = "list" /\ ListView = "error"
    /\ ~listQ.fetching
    /\ listQ' = StartFetch(listQ, edits)
    /\ ret' = NoRet
    /\ UNCHANGED <<store, now, calls, writes, faults, navs, todos, route,
                   detailQ, itemBusy, detailBusy, edits>>
    /\ UNCHANGED <<view, form>>

(***************************************************************************)
(* The ['todo', id] query: fetch-one.                                      *)
(***************************************************************************)
\* since: the edits of remote-origin tasks that precede the fetch
StartDetail(id, e) ==
    [id |-> id, status |-> "loading", fetching |-> TRUE, failures |-> 0,
     data |-> None, invalid |-> FALSE, since |-> e]

RefetchDetail(q, e) ==
    [q EXCEPT !.fetching = TRUE, !.failures = 0, !.invalid = FALSE, !.since = e]

\* queryClient.invalidateQueries(['todo', id])
InvalidateDetail(q, id, r, e) ==
    IF q.id # id THEN q
    ELSE IF r = "detail" THEN RefetchDetail(q, e)
    ELSE [q EXCEPT !.invalid = TRUE]

\* getTodoById that looks into local storage before it asks the remote API
GetTodoByIdLocalFirst ==
    /\ detailQ.fetching
    /\ RemoteHas(detailQ.id) \/ detailQ.id \in DOMAIN store
    /\ detailQ' = [detailQ EXCEPT !.status = "success", !.fetching = FALSE,
                                  !.data = IF detailQ.id \in DOMAIN store
                                           THEN Some(store[detailQ.id])
                                           ELSE Some(RemoteTodo(detailQ.id)),
                                  !.invalid = FALSE, !.failures = 0,
                                  !.since = EmptyStore]
    /\ ret' = NoRet
    /\ UNCHANGED <<store, now, calls, writes, faults, navs, listQ, todos, route,
                   itemBusy, detailBusy, edits>>
    /\ UNCHANGED <<view, form>>

\* TodoService.getTodoById resolves with response.data
GetTodoByIdResolve ==
    /\ detailQ.fetching
    /\ RemoteHas(detailQ.id)
    /\ detailQ' = [detailQ EXCEPT !.status = "success", !.fetching = FALSE,
                                  !.data = Some(RemoteTodo(detailQ.id)),
                                  !.invalid = FALSE, !.failures = 0,
                                  !.since = EmptyStore]
    /\ ret' = NoRet
    /\ UNCHANGED <<store, now, calls, writes, faults, navs, listQ, todos, route,
                   itemBusy, detailBusy, edits>>
    /\ UNCHANGED <<view, form>>

\* TodoService.getTodoById throws `Failed to fetch todo with ID ${id}`
GetTodoByIdReject ==
    /\ detailQ.fetching
    /\ Fault(detailQ.failures = 0)
    /\ detailQ' = IF detailQ.failures < DetailRetry
                  THEN [detailQ EXCEPT !.failures = @ + 1]
                  ELSE [detailQ EXCEPT !.status = "error", !.fetching = FALSE,
                                       !.failures = 0, !.since = EmptyStore]
    /\ ret' = NoRet
    /\ UNCHANGED <<store, now, calls, writes, navs, listQ, todos, route,
                   itemBusy, detailBusy, edits>>
    /\ UNCHANGED <<view, form>>

(***************************************************************************)
(* Mutations: how a TodoService write starts and settles.                  *)
(***************************************************************************)
FreeSlots == {s \in Slots : calls[s].op = "idle"}
FreeSlot == CHOOSE s \in FreeSlots : \A t \in FreeSlots : s <= t

CanWrite == FreeSlots # {} /\ writes < MaxWrites

\* mutateAsync: the mutationFn is invoked
StartCall(op, src, id, data) ==
    /\ calls' = [calls EXCEPT ![FreeSlot] =
                    [op |-> op, src |-> src, id |-> id, data |-> Some(data),
                     pc |-> "remote", resp |-> None, localTodo |-> None,
                     attempt |-> 0, inst |-> TRUE]]
    /\ writes' = writes + 1
    /\ ret' = NoRet
    /\ edits' = edits

\* CreateTodo.handleSubmit after await onCreateTodo: the form is cleared and
\* closed, or the catch clause shows the failure; a CreateTodo that was
\* unmounted meanwhile is not touched
FormSettles(s, ok) ==
    IF calls[s].src = "form" /\ calls[s].inst /\ submitting
    THEN /\ submitting' = FALSE
         /\ IF ok
            THEN title' = <<>> /\ error' = NoError /\ isFormOpen' = FALSE
            ELSE error' = CreateFailedError /\ UNCHANGED <<title, isFormOpen>>
    ELSE UNCHANGED form

\* the mutationFn resolved: onSuccess invalidates the queries, then the
\* handler that awaited mutateAsync runs its finally clause
MutationSucceeds(s, value, remote) ==
    LET c == calls[s]
        r == IF c.src = "detail" /\ c.op = "delete" THEN "list" ELSE route
        \* an update that returns the server's response for a task the remote
        \* API serves is an edit of a remote-origin task
        e == IF c.op = "update" /\ c.pc = "remote" /\ RemoteHas(c.id)
             THEN SetItem(edits, c.id, Get(c.data)) ELSE edits
    IN  /\ ret' = [op |-> c.op, id |-> IF c.op = "create" THEN value.id ELSE c.id,
                   ok |-> TRUE, value |-> Some(value), data |-> c.data,
                   remote |-> remote]
        /\ edits' = e
        /\ route' = r
        /\ listQ' = InvalidateList(listQ, r, e)
        /\ detailQ' = IF c.src = "detail" /\ c.op = "update"
                      THEN InvalidateDetail(detailQ, c.id, r, e) ELSE detailQ
        /\ itemBusy' = IF c.src = "item" /\ c.inst THEN itemBusy \ {c.id} ELSE itemBusy
        /\ detailBusy' = IF r # route \/ (c.src = "detail" /\ c.inst)
                         THEN FALSE ELSE detailBusy
        /\ calls' = [t \in Slots |->
                        IF t = s THEN IdleCall
                        ELSE IF r # route /\ calls[t].src = "detail"
                        THEN [calls[t] EXCEPT !.inst = FALSE]
                        ELSE calls[t]]
        /\ FormSettles(s, TRUE)

\* the mutationFn threw: the mutation retries MutationRetry times, then the
\* handler that awaited mutateAsync catches the error
MutationFails(s, remote) ==
    LET c == calls[s]
    IN  /\ Fault(c.attempt = 0)
        /\ edits' = edits
        /\ IF c.attempt < MutationRetry
           THEN /\ calls' = [calls EXCEPT ![s] =
                               [c EXCEPT !.pc = "remote", !.resp = None,
                                         !.localTodo = None, !.attempt = @ + 1]]
                /\ ret' = NoRet
                /\ UNCHANGED <<route, listQ, detailQ, itemBusy, detailBusy>>
                /\ UNCHANGED form
           ELSE /\ ret' = [op |-> c.op, id |-> c.id, ok |-> FALSE, value |-> None,
                           data |-> c.data, remote |-> remote]
                /\ calls' = [calls EXCEPT ![s] = IdleCall]
                /\ itemBusy' = IF c.src = "item" /\ c.inst
                               THEN itemBusy \ {c.id} ELSE itemBusy
                /\ detailBusy' = IF c.src = "detail" /\ c.inst
                                 THEN FALSE ELSE detailBusy
                /\ FormSettles(s, FALSE)
                /\ UNCHANGED <<route, listQ, detailQ>>

(***************************************************************************)
(* TodoService.createTodo                                                  *)
(***************************************************************************)
\* the body createTodo posts
CreateBody(todoData) ==
    [title |-> todoData.title, completed |-> FALSE, userId |-> DefaultUserId]

\* { ...response.data, id: Date.now(), isLocal: true }
LocalTodo(respData, t) == Merge(respData, [id |-> t, isLocal |-> TRUE])

\* createTodo as a local write with a best-effort remote request: api.post
\* rejected, the task is stored all the same and createTodo returns it
CreatePostBestEffort(s) ==
    /\ calls[s].op = "create" /\ calls[s].pc = "remote"
    /\ LET localTodo == LocalTodo(CreateBody(Get(calls[s].data)), now)
       IN  /\ store' = SetItem(store, localTodo.id, localTodo)
           /\ MutationSucceeds(s, localTodo, "failed")
    /\ UNCHANGED <<now, writes, faults, navs, todos>>
    /\ UNCHANGED view

\* api.post rejected: createTodo throws 'Failed to create todo'
CreatePostFail(s) ==
    /\ calls[s].op = "create" /\ calls[s].pc = "remote"
    /\ MutationFails(s, "failed")
    /\ UNCHANGED <<store, now, writes, navs, todos>>
    /\ UNCHANGED view

\* api.post resolved, the task is built with the current Date.now() and
\* localforage.setItem resolved: createTodo returns localTodo
CreateSetOk(s, t) ==
    /\ calls[s].op = "create" /\ calls[s].pc = "remote"
    /\ t \in Later
    /\ now' = t
    /\ LET resp == RemotePost(CreateBody(Get(calls[s].data)))
           localTodo == LocalTodo(resp, t)
       IN  /\ store' = SetItem(store, localTodo.id, localTodo)
           /\ MutationSucceeds(s, localTodo, "ok")
    /\ UNCHANGED <<writes, faults, navs, todos>>
    /\ UNCHANGED view

\* api.post resolved, localforage.setItem rejected: createTodo throws
\* 'Failed to create todo'
CreateSetFail(s, t) ==
    /\ calls[s].op = "create" /\ calls[s].pc = "remote"
    /\ t \in Later
    /\ now' = t
    /\ MutationFails(s, "ok")
    /\ UNCHANGED <<store, writes, navs, todos>>
    /\ UNCHANGED view

(***************************************************************************)
(* TodoService.updateTodo                                                  *)
(***************************************************************************)
\* api.put rejected: updateTodo throws `Failed to update todo with ID ${id}`
UpdatePutFail(s) ==
    /\ calls[s].op = "update" /\ calls[s].pc = "remote"
    /\ MutationFails(s, "failed")
    /\ UNCHANGED <<store, now, writes, navs, todos>>
    /\ UNCHANGED view

\* updateTodo that stores the server's response when localforage.getItem
\* finds no task
UpdateGetUpsert(s) ==
    /\ calls[s].op = "update" /\ calls[s].pc = "remote"
    /\ LET resp == RemotePut(calls[s].id, Get(calls[s].data))
       IN  IF calls[s].id \in DOMAIN store
           THEN /\ calls' = [calls EXCEPT ![s].pc = "set", ![s].resp = Some(resp),
                                          ![s].localTodo = Some(store[calls[s].id])]
                /\ ret' = NoRet
                /\ UNCHANGED <<store, route, listQ, detailQ, itemBusy, detailBusy,
                               edits>>
                /\ UNCHANGED form
           ELSE /\ store' = SetItem(store, calls[s].id, resp)
                /\ MutationSucceeds(s, resp, "ok")
    /\ UNCHANGED <<now, writes, faults, navs, todos>>
    /\ UNCHANGED view

\* api.put resolved and localforage.getItem resolved: with a stored task the
\* update goes on to setItem, without one updateTodo returns response.data
UpdateGetOk(s) ==
    /\ calls[s].op = "update" /\ calls[s].pc = "remote"
    /\ LET resp == RemotePut(calls[s].id, Get(calls[s].data))
       IN  IF calls[s].id \in DOMAIN store
           THEN /\ calls' = [calls EXCEPT ![s].pc = "set", ![s].resp = Some(resp),
                                          ![s].localTodo = Some(store[calls[s].id])]
                /\ ret' = NoRet
                /\ UNCHANGED <<route, listQ, detailQ, itemBusy, detailBusy, edits>>
                /\ UNCHANGED form
           ELSE MutationSucceeds(s, resp, "ok")
    /\ UNCHANGED <<store, now, writes, faults, navs, todos>>
    /\ UNCHANGED view

\* api.put resolved, localforage.getItem rejected
UpdateGetFail(s) ==
    /\ calls[s].op = "update" /\ calls[s].pc = "remote"
    /\ MutationFails(s, "ok")
    /\ UNCHANGED <<store, now, writes, navs, todos>>
    /\ UNCHANGED view

\* { ...todoData, ...localTodo }: the stored fields win
UpdatedTodoStoredWins(localTodo, todoData) == Merge(todoData, localTodo)

\* the merge rebuilt from the task's own fields, without the local-origin flag
UpdatedTodoNoFlag(localTodo, todoData) ==
    LET u == Merge(localTodo, todoData)
    IN  [f \in DOMAIN u \ {"isLocal"} |-> u[f]]

\* { ...localTodo, ...todoData }
UpdatedTodo(localTodo, todoData) == Merge(localTodo, todoData)

\* localforage.setItem resolved: updateTodo returns updatedTodo
UpdateSetOk(s) ==
    /\ calls[s].op = "update" /\ calls[s].pc = "set"
    /\ LET u == UpdatedTodo(Get(calls[s].localTodo), Get(calls[s].data))
       IN  /\ store' = SetItem(store, calls[s].id, u)
           /\ MutationSucceeds(s, u, "ok")
    /\ UNCHANGED <<now, writes, faults, navs, todos>>
    /\ UNCHANGED view

\* localforage.setItem rejected
UpdateSetFail(s) ==
    /\ calls[s].op = "update" /\ calls[s].pc = "set"
    /\ MutationFails(s, "ok")
    /\ UNCHANGED <<store, now, writes, navs, todos>>
    /\ UNCHANGED view

(***************************************************************************)
(* TodoService.deleteTodo                                                  *)
(***************************************************************************)
\* what deleteTodo returns: { success: true }
DeleteResult == [success |-> TRUE]

\* deleteTodo that removes the stored task first and then meets the rejected
\* api.delete
DeleteLocalFirstRemoteFail(s) ==
    /\ calls[s].op = "delete" /\ calls[s].pc = "remote"
    /\ store' = RemoveItem(store, calls[s].id)
    /\ MutationFails(s, "failed")
    /\ UNCHANGED <<now, writes, navs, todos>>
    /\ UNCHANGED view

\* api.delete rejected: deleteTodo throws `Failed to delete todo with ID ${id}`
DeleteRemoteFail(s) ==
    /\ calls[s].op = "delete" /\ calls[s].pc = "remote"
    /\ MutationFails(s, "failed")
    /\ UNCHANGED <<store, now, writes, navs, todos>>
    /\ UNCHANGED view

\* the delete that also takes the task out of the displayed collection
DeleteRemoveOptimistic(s) ==
    /\ calls[s].op = "delete" /\ calls[s].pc = "remote"
    /\ store' = RemoveItem(store, calls[s].id)
    /\ todos' = SelectSeq(todos, LAMBDA todo : todo.id # calls[s].id)
    /\ MutationSucceeds(s, DeleteResult, "ok")
    /\ UNCHANGED <<now, writes, faults, navs>>
    /\ UNCHANGED view

\* api.delete resolved and localforage.removeItem resolved
DeleteRemoveOk(s) ==
    /\ calls[s].op = "delete" /\ calls[s].pc = "remote"
    /\ store' = RemoveItem(store, calls[s].id)
    /\ MutationSucceeds(s, DeleteResult, "ok")
    /\ UNCHANGED <<now, writes, faults, navs, todos>>
    /\ UNCHANGED view

\* api.delete resolved, localforage.removeItem rejected
DeleteRemoveFail(s) ==
    /\ calls[s].op = "delete" /\ calls[s].pc = "remote"
    /\ MutationFails(s, "ok")
    /\ UNCHANGED <<store, now, writes, navs, todos>>
    /\ UNCHANGED view

(***************************************************************************)
(* The handlers that issue the writes.                                     *)
(***************************************************************************)
\* createTodoMutation.isLoading: disables the create form
CreatePending ==
    \E s \in Slots : calls[s].op = "create" /\ calls[s].inst

\* the "Add New Task" button: setIsFormOpen(true)
OpenForm ==
    /\ route = "list" /\ ListView = "list"
    /\ ~isFormOpen /\ ~CreatePending
    /\ isFormOpen' = TRUE
    /\ ret' = NoRet
    /\ UNCHANGED <<title, error, submitting>>
    /\ UNCHANGED <<store, now, calls, writes, faults, navs, listQ, todos,
                   route, detailQ, itemBusy, detailBusy, edits>>
    /\ UNCHANGED view

\* CreateTodo.handleInputChange: setTitle(e.target.value), a shown error is
\* cleared
HandleInputChange(typed) ==
    /\ route = "list" /\ ListView = "list"
    /\ isFormOpen /\ ~CreatePending
    /\ typed # title
    /\ title' = typed
    /\ error' = NoError
    /\ ret' = NoRet
    /\ UNCHANGED <<isFormOpen, submitting>>
    /\ UNCHANGED <<store, now, calls, writes, faults, navs, listQ, todos,
                   route, detailQ, itemBusy, detailBusy, edits>>
    /\ UNCHANGED view

\* CreateTodo.handleCancel, from the Cancel buttons and the Escape key
HandleCancel ==
    /\ route = "list" /\ ListView = "list"
    /\ isFormOpen /\ ~CreatePending
    /\ title' = <<>>
    /\ error' = NoError
    /\ isFormOpen' = FALSE
    /\ ret' = NoRet
    /\ UNCHANGED submitting
    /\ UNCHANGED <<store, now, calls, writes, faults, navs, listQ, todos,
                   route, detailQ, itemBusy, detailBusy, edits>>
    /\ UNCHANGED view

\* handleSubmit without the minimum length
HandleSubmitAnyLength ==
    /\ route = "list" /\ ListView = "list"
    /\ isFormOpen /\ ~CreatePending
    /\ Len(Trim(title)) # 0
    /\ CanWrite
    /\ StartCall("create", "form", 0, [title |-> Trim(title)])
    /\ submitting' = TRUE
    /\ UNCHANGED <<isFormOpen, title, error>>
    /\ UNCHANGED <<store, now, faults, navs, listQ, todos, route, detailQ,
                   itemBusy, detailBusy>>
    /\ UNCHANGED view

\* CreateTodo.handleSubmit, from the submit button, which is disabled while
\* the trimmed title is empty: a title that fails the validation sets the
\* error and returns, any other goes to onCreateTodo({ title: title.trim() })
HandleSubmit ==
    /\ route = "list" /\ ListView = "list"
    /\ isFormOpen /\ ~CreatePending
    /\ Len(Trim(title)) # 0
    /\ IF Trim(title) = <<>> \/ Len(Trim(title)) < MinTitleLength
       THEN /\ error' = IF Trim(title) = <<>> THEN EmptyTitleError
                        ELSE ShortTitleError
            /\ ret' = NoRet
            /\ UNCHANGED <<isFormOpen, title, submitting, calls, writes, edits>>
       ELSE /\ CanWrite
            /\ StartCall("create", "form", 0, [title |-> Trim(title)])
            /\ submitting' = TRUE
            /\ UNCHANGED <<isFormOpen, title, error>>
    /\ UNCHANGED <<store, now, faults, navs, listQ, todos, route, detailQ,
                   itemBusy, detailBusy>>
    /\ UNCHANGED view

\* the form opened if it was closed, typed into and submitted with a title
\* that passes the validation of handleSubmit, as one step
SubmitCreate(typed) ==
    /\ route = "list" /\ ListView = "list"
    /\ ~CreatePending
    /\ Len(Trim(typed)) >= MinTitleLength
    /\ CanWrite
    /\ StartCall("create", "form", 0, [title |-> Trim(typed)])
    /\ isFormOpen' = TRUE
    /\ title' = typed
    /\ error' = IF isFormOpen /\ title = typed THEN error ELSE NoError
    /\ submitting' = TRUE
    /\ UNCHANGED <<store, now, faults, navs, listQ, todos, route, detailQ,
                   itemBusy, detailBusy>>
    /\ UNCHANGED view

\* TodoItem.handleToggle -> updateTodo(todo.id, { ...todo, completed: !todo.completed })
ItemToggle(k) ==
    /\ route = "list" /\ ListView = "list"
    /\ k \in 1..Len(todos)
    /\ todos[k].id \notin itemBusy
    /\ CanWrite
    /\ StartCall("update", "item", todos[k].id,
                 Merge(todos[k], [completed |-> ~todos[k].completed]))
    /\ itemBusy' = itemBusy \cup {todos[k].id}
    /\ UNCHANGED <<store, now, faults, navs, listQ, todos, route, detailQ,
                   detailBusy>>
    /\ UNCHANGED <<view, form>>

\* handleSave that looks at the typed title before it is trimmed
ItemSaveUntrimmed(k, typed) ==
    /\ route = "list" /\ ListView = "list"
    /\ k \in 1..Len(todos)
    /\ todos[k].id \notin itemBusy
    /\ typed # <<>> /\ typed # todos[k].title
    /\ CanWrite
    /\ StartCall("update", "item", todos[k].id,
                 Merge(todos[k], [title |-> Trim(typed)]))
    /\ itemBusy' = itemBusy \cup {todos[k].id}
    /\ UNCHANGED <<store, now, faults, navs, listQ, todos, route, detailQ,
                   detailBusy>>
    /\ UNCHANGED <<view, form>>

\* TodoItem.handleSave: an empty trimmed title is refused, an unchanged one
\* closes the editor, any other goes to
\* updateTodo(todo.id, { ...todo, title: editTitle.trim() })
ItemSave(k, typed) ==
    /\ route = "list" /\ ListView = "list"
    /\ k \in 1..Len(todos)
    /\ todos[k].id \notin itemBusy
    /\ Trim(typed) # <<>> /\ Trim(typed) # todos[k].title
    /\ CanWrite
    /\ StartCall("update", "item", todos[k].id,
                 Merge(todos[k], [title |-> Trim(typed)]))
    /\ itemBusy' = itemBusy \cup {todos[k].id}
    /\ UNCHANGED <<store, now, faults, navs, listQ, todos, route, detailQ,
                   detailBusy>>
    /\ UNCHANGED <<view, form>>

\* TodoItem.handleDelete -> deleteTodo(todo.id)
ItemDelete(k) ==
    /\ route = "list" /\ ListView = "list"
    /\ k \in 1..Len(todos)
    /\ todos[k].id \notin itemBusy
    /\ CanWrite
    /\ StartCall("delete", "item", todos[k].id, DeleteResult)
    /\ itemBusy' = itemBusy \cup {todos[k].id}
    /\ UNCHANGED <<store, now, faults, navs, listQ, todos, route, detailQ,
                   detailBusy>>
    /\ UNCHANGED <<view, form>>

\* TodoDetail.handleToggleComplete
DetailToggle ==
    /\ route = "detail" /\ DetailView = "task" /\ IsSome(detailQ.data)
    /\ ~detailBusy
    /\ CanWrite
    /\ LET todo == Get(detailQ.data)
       IN  StartCall("update", "detail", todo.id,
                     Merge(todo, [completed |-> ~todo.completed]))
    /\ detailBusy' = TRUE
    /\ UNCHANGED <<store, now, faults, navs, listQ, todos, route, detailQ,
                   itemBusy>>
    /\ UNCHANGED <<view, form>>

\* TodoDetail.handleDelete
DetailDelete ==
    /\ route = "detail" /\ DetailView = "task" /\ IsSome(detailQ.data)
    /\ ~detailBusy
    /\ CanWrite
    /\ StartCall("delete", "detail", Get(detailQ.data).id, DeleteResult)
    /\ detailBusy' = TRUE
    /\ UNCHANGED <<store, now, faults, navs, listQ, todos, route, detailQ,
                   itemBusy>>
    /\ UNCHANGED <<view, form>>

(***************************************************************************)
(* Navigation between the two routes.                                      *)
(***************************************************************************)
\* the "View Details" link of a TodoItem: TodoList unmounts, TodoDetail mounts
OpenDetail(k, stale) ==
    /\ route = "list" /\ ListView = "list"
    /\ k \in 1..Len(todos)
    /\ navs < MaxNavs
    /\ navs' = navs + 1
    /\ route' = "detail"
    /\ detailQ' = IF detailQ.id = todos[k].id /\ detailQ.fetching
                  THEN detailQ
                  ELSE IF detailQ.id = todos[k].id /\ detailQ.status = "success"
                  THEN IF detailQ.invalid \/ stale
                       THEN RefetchDetail(detailQ, edits) ELSE detailQ
                  ELSE StartDetail(todos[k].id, edits)
    /\ itemBusy' = {}
    /\ detailBusy' = FALSE
    /\ calls' = [s \in Slots |->
                    IF calls[s].src \in {"item", "form"}
                    THEN [calls[s] EXCEPT !.inst = FALSE] ELSE calls[s]]
    /\ FormUnmounts
    /\ ret' = NoRet
    /\ UNCHANGED <<store, now, writes, faults, listQ, todos, edits>>
    /\ UNCHANGED view

\* the "Back to Todo List" link: TodoDetail unmounts, TodoList mounts
BackToList(stale) ==
    /\ route = "detail"
    /\ route' = "list"
    /\ listQ' = IF listQ.fetching THEN listQ
                ELSE IF ~listQ.hasData \/ listQ.invalid \/ stale
                     \/ listQ.status = "error"
                THEN StartFetch(listQ, edits) ELSE listQ
    /\ detailBusy' = FALSE
    /\ calls' = [s \in Slots |->
                    IF calls[s].src = "detail"
                    THEN [calls[s] EXCEPT !.inst = FALSE] ELSE calls[s]]
    /\ ret' = NoRet
    /\ UNCHANGED <<store, now, writes, faults, navs, todos, detailQ, itemBusy,
                   edits>>
    /\ UNCHANGED <<view, form>>

(***************************************************************************)
(* The specification.                                                      *)
(***************************************************************************)
Next ==
    \/ GetLocalTodosReturn
    \/ GetLocalTodosCatch
    \/ FetchAllResolve
    \/ FetchAllReject
    \/ ListTryAgain
    \/ GetTodoByIdResolve
    \/ GetTodoByIdReject
    \/ \E typed \in TypedTitles : SubmitCreate(typed)
    \/ \E k \in 1..Len(todos) : ItemToggle(k)
    \/ \E k \in 1..Len(todos), typed \in EditedTitles : ItemSave(k, typed)
    \/ \E k \in 1..Len(todos) : ItemDelete(k)
    \/ DetailToggle
    \/ DetailDelete
    \/ \E k \in 1..Len(todos), stale \in BOOLEAN : OpenDetail(k, stale)
    \/ \E stale \in BOOLEAN : BackToList(stale)
    \/ \E s \in Slots : CreatePostFail(s)
    \/ \E s \in Slots, t \in Clock : CreateSetOk(s, t)
    \/ \E s \in Slots, t \in Clock : CreateSetFail(s, t)
    \/ \E s \in Slots : UpdatePutFail(s)
    \/ \E s \in Slots : UpdateGetOk(s)
    \/ \E s \in Slots : UpdateGetFail(s)
    \/ \E s \in Slots : UpdateSetOk(s)
    \/ \E s \in Slots : UpdateSetFail(s)
    \/ \E s \in Slots : DeleteRemoteFail(s)
    \/ \E s \in Slots : DeleteRemoveOk(s)
    \/ \E s \in Slots : DeleteRemoveFail(s)

Spec == Init /\ [][Next]_vars

(***************************************************************************)
(* Sessions: the page is loaded anew.  The script starts over with a new   *)
(* QueryClient and new components; local storage is kept.  The sessions    *)
(* stay on the list route.                                                 *)
(***************************************************************************)
\* the page is reloaded: the cache, the components' state and the writes in
\* flight are gone, localforage's store is as it was left
Restart ==
    /\ route = "list"
    /\ calls' = [s \in Slots |-> IdleCall]
    /\ listQ' = FetchingList
    /\ todos' = <<>>
    /\ detailQ' = NoDetail
    /\ itemBusy' = {}
    /\ detailBusy' = FALSE
    /\ ret' = NoRet
    /\ searchQuery' = <<>>
    /\ filterStatus' = "all"
    /\ currentPage' = 1
    /\ pageReset' = FALSE
    /\ FormUnmounts
    /\ UNCHANGED <<store, now, writes, faults, navs, route, edits>>

SessionNext ==
    \/ Restart
    \/ GetLocalTodosReturn
    \/ GetLocalTodosCatch
    \/ FetchAllResolve
    \/ FetchAllReject
    \/ ListTryAgain
    \/ \E typed \in TypedTitles : SubmitCreate(typed)
    \/ \E k \in 1..Len(todos) : ItemToggle(k)
    \/ \E k \in 1..Len(todos), typed \in EditedTitles : ItemSave(k, typed)
    \/ \E k \in 1..Len(todos) : ItemDelete(k)
    \/ \E s \in Slots : CreatePostFail(s)
    \/ \E s \in Slots, t \in Clock : CreateSetOk(s, t)
    \/ \E s \in Slots, t \in Clock : CreateSetFail(s, t)
    \/ \E s \in Slots : UpdatePutFail(s)
    \/ \E s \in Slots : UpdateGetOk(s)
    \/ \E s \in Slots : UpdateGetFail(s)
    \/ \E s \in Slots : UpdateSetOk(s)
    \/ \E s \in Slots : UpdateSetFail(s)
    \/ \E s \in Slots : DeleteRemoteFail(s)
    \/ \E s \in Slots : DeleteRemoveOk(s)
    \/ \E s \in Slots : DeleteRemoveFail(s)

SessionSpec == Init /\ [][SessionNext]_vars

(***************************************************************************)
(* The program while the reads of fetch-all succeed: no rejected           *)
(* localforage.iterate, no rejected GET /todos, and so no error state of   *)
(* the list.  The writes and fetch-one succeed or fail as before.          *)
(***************************************************************************)
ReadsSucceedNext ==
    \/ GetLocalTodosReturn
    \/ FetchAllResolve
    \/ GetTodoByIdResolve
    \/ GetTodoByIdReject
    \/ \E typed \in TypedTitles : SubmitCreate(typed)
    \/ \E k \in 1..Len(todos) : ItemToggle(k)
    \/ \E k \in 1..Len(todos), typed \in EditedTitles : ItemSave(k, typed)
    \/ \E k \in 1..Len(todos) : ItemDelete(k)
    \/ DetailToggle
    \/ DetailDelete
    \/ \E k \in 1..Len(todos), stale \in BOOLEAN : OpenDetail(k, stale)
    \/ \E stale \in BOOLEAN : BackToList(stale)
    \/ \E s \in Slots : CreatePostFail(s)
    \/ \E s \in Slots, t \in Clock : CreateSetOk(s, t)
    \/ \E s \in Slots, t \in Clock : CreateSetFail(s, t)
    \/ \E s \in Slots : UpdatePutFail(s)
    \/ \E s \in Slots : UpdateGetOk(s)
    \/ \E s \in Slots : UpdateGetFail(s)
    \/ \E s \in Slots : UpdateSetOk(s)
    \/ \E s \in Slots : UpdateSetFail(s)
    \/ \E s \in Slots : DeleteRemoteFail(s)
    \/ \E s \in Slots : DeleteRemoveOk(s)
    \/ \E s \in Slots : DeleteRemoveFail(s)

ReadsSucceedSpec == Init /\ [][ReadsSucceedNext]_vars

(***************************************************************************)
(* The create form on its own: the list loads, the form is opened, typed   *)
(* into, submitted and cancelled step by step, and its creates run.        *)
(***************************************************************************)
FormNext ==
    \/ GetLocalTodosReturn
    \/ FetchAllResolve
    \/ OpenForm
    \/ \E typed \in TypedTitles : HandleInputChange(typed)
    \/ HandleCancel
    \/ HandleSubmit
    \/ \E s \in Slots : CreatePostFail(s)
    \/ \E s \in Slots, t \in Clock : CreateSetOk(s, t)
    \/ \E s \in Slots, t \in Clock : CreateSetFail(s, t)

FormSpec == Init /\ [][FormNext]_vars

(***************************************************************************)
(* TodoList: search, status filter and pagination.  The list view over a   *)
(* loaded collection is a specification of its own, ViewSpec: the          *)
(* collection is an input, the steps are the user's changes of the search  *)
(* string, the status filter and the page, and the page-reset effect.      *)
(***************************************************************************)
\* the characters of search strings and titles
Chars == {"a", "b", "B", " "}

\* String.prototype.toLowerCase, character by character
LowerOf(c) == IF c = "A" THEN "a" ELSE IF c = "B" THEN "b" ELSE c

ToLowerCase(str) == [i \in 1..Len(str) |-> LowerOf(str[i])]

\* String.prototype.includes
Includes(str, sub) ==
    \E i \in 0..(Len(str) - Len(sub)) : SubSeq(str, i + 1, i + Len(sub)) = sub

\* the match made against the trimmed search string
MatchesSearchTrimmed(todo, q) ==
    Includes(ToLowerCase(todo.title), ToLowerCase(Trim(q)))

\* todo.title.toLowerCase().includes(searchQuery.toLowerCase())
MatchesSearch(todo, q) == Includes(ToLowerCase(todo.title), ToLowerCase(q))

\* the memo with the status filter applied to todos, not to the search result
FilteredTodosStatusOnly(ts, q, f) ==
    LET searched == IF Trim(q) # <<>>
                    THEN SelectSeq(ts, LAMBDA todo : MatchesSearch(todo, q))
                    ELSE ts
    IN  IF f = "completed" THEN SelectSeq(ts, LAMBDA todo : todo.completed)
        ELSE IF f = "pending" THEN SelectSeq(ts, LAMBDA todo : ~todo.completed)
        ELSE searched

\* the filteredTodos memo
FilteredTodos(ts, q, f) ==
    LET searched == IF Trim(q) # <<>>
                    THEN SelectSeq(ts, LAMBDA todo : MatchesSearch(todo, q))
                    ELSE ts
    IN  IF f = "completed" THEN SelectSeq(searched, LAMBDA todo : todo.completed)
        ELSE IF f = "pending" THEN SelectSeq(searched, LAMBDA todo : ~todo.completed)
        ELSE searched

filteredTodos == FilteredTodos(todos, searchQuery, filterStatus)

\* Math.floor in place of Math.ceil
TotalPagesFloor(totalTodos) == totalTodos \div TodosPerPage

\* Math.ceil(totalTodos / todosPerPage)
TotalPages(totalTodos) ==
    IF totalTodos % TodosPerPage = 0
    THEN totalTodos \div TodosPerPage
    ELSE totalTodos \div TodosPerPage + 1

totalPages == TotalPages(Len(filteredTodos))

\* the start index of a page counted from 0
StartIndexFromPage(page) == page * TodosPerPage

StartIndex(page) == (page - 1) * TodosPerPage

EndIndex(page) == StartIndex(page) + TodosPerPage

\* Array.prototype.slice(start, end): a negative index counts from the end,
\* indices are clamped to the array
Slice(arr, start, end) ==
    LET n == Len(arr)
        Clamp(i) == IF i < 0 THEN (IF n + i < 0 THEN 0 ELSE n + i)
                    ELSE IF i > n THEN n ELSE i
    IN  SubSeq(arr, Clamp(start) + 1, Clamp(end))

\* the slice of page `page`
PageOf(arr, page) == Slice(arr, StartIndex(page), EndIndex(page))

currentTodos == PageOf(filteredTodos, currentPage)

\* the inputs: search strings, status filters and loaded collections
RECURSIVE StringsUpTo(_)
StringsUpTo(n) ==
    IF n = 0 THEN {<<>>}
    ELSE LET shorter == StringsUpTo(n - 1)
         IN  shorter \cup {Append(str, c) : str \in shorter, c \in Chars}

SearchStrings == StringsUpTo(MaxSearchLen)

Statuses == {"all", "completed", "pending"}

ViewTitles == << <<"B", "a">>, <<"a", "b">>, <<"b", " ", "a">> >>

\* the k-th task of a loaded collection
ViewTodo(k) ==
    [id |-> k, title |-> ViewTitles[(k % Len(ViewTitles)) + 1],
     completed |-> (k % 2 = 0), userId |-> DefaultUserId]

ViewTodos(n) == [k \in 1..n |-> ViewTodo(k)]

\* the ['todos'] query after its fetch resolved
LoadedList ==
    [FetchingList EXCEPT !.status = "success", !.fetching = FALSE,
                         !.loc = "idle", !.hasData = TRUE]

ViewInit ==
    /\ store = EmptyStore
    /\ now = Epoch + 1
    /\ calls = [s \in Slots |-> IdleCall]
    /\ writes = 0
    /\ faults = 0
    /\ navs = 0
    /\ listQ = LoadedList
    /\ \E n \in 0..MaxTodos : todos = ViewTodos(n)
    /\ route = "list"
    /\ detailQ = NoDetail
    /\ itemBusy = {}
    /\ detailBusy = FALSE
    /\ ret = NoRet
    /\ edits = EmptyStore
    /\ searchQuery = <<>>
    /\ filterStatus = "all"
    /\ currentPage = 1
    /\ pageReset = FALSE
    /\ isFormOpen = FALSE
    /\ title = <<>>
    /\ error = NoError
    /\ submitting = FALSE

\* an event handler runs once the effects of the last render have run
ViewIdle == route = "list" /\ ListView = "list" /\ ~pageReset

\* search input onChange: setSearchQuery(e.target.value)
SetSearchQuery(q) ==
    /\ ViewIdle
    /\ q # searchQuery
    /\ searchQuery' = q
    /\ pageReset' = TRUE
    /\ UNCHANGED <<filterStatus, currentPage>>
    /\ UNCHANGED <<dataVars, form>>

\* the clear button, rendered while searchQuery is not empty
ClearSearch ==
    /\ ViewIdle
    /\ searchQuery # <<>>
    /\ searchQuery' = <<>>
    /\ pageReset' = TRUE
    /\ UNCHANGED <<filterStatus, currentPage>>
    /\ UNCHANGED <<dataVars, form>>

\* the filter change with an effect that depends on [searchQuery] alone
SetFilterStatusNoReset(f) ==
    /\ ViewIdle
    /\ f # filterStatus
    /\ filterStatus' = f
    /\ UNCHANGED <<searchQuery, currentPage, pageReset>>
    /\ UNCHANGED <<dataVars, form>>

\* filter dropdown onChange: setFilterStatus(e.target.value)
SetFilterStatus(f) ==
    /\ ViewIdle
    /\ f # filterStatus
    /\ filterStatus' = f
    /\ pageReset' = TRUE
    /\ UNCHANGED <<searchQuery, currentPage>>
    /\ UNCHANGED <<dataVars, form>>

\* handlePageChange(page)
HandlePageChange(page) ==
    /\ currentPage' = page
    /\ UNCHANGED <<searchQuery, filterStatus, pageReset>>
    /\ UNCHANGED <<dataVars, form>>

\* the previous-page button, disabled on page 1
PreviousPage ==
    /\ ViewIdle
    /\ totalPages > 1
    /\ currentPage # 1
    /\ HandlePageChange(currentPage - 1)

\* the next-page button, disabled on the last page
NextPage ==
    /\ ViewIdle
    /\ totalPages > 1
    /\ currentPage # totalPages
    /\ currentPage < MaxPage
    /\ HandlePageChange(currentPage + 1)

\* a page-number button: first, last, current and adjacent pages are shown
GoToPage(page) ==
    /\ ViewIdle
    /\ totalPages > 1
    /\ page \in 1..totalPages
    /\ \/ page = 1
       \/ page = totalPages
       \/ page - currentPage \in {-1, 0, 1}
    /\ HandlePageChange(page)

\* useEffect(() => setCurrentPage(1), [searchQuery, filterStatus])
ResetPage ==
    /\ pageReset
    /\ currentPage' = 1
    /\ pageReset' = FALSE
    /\ UNCHANGED <<searchQuery, filterStatus>>
    /\ UNCHANGED <<dataVars, form>>

\* the ['todos'] query resolves again after a write: the collection comes
\* back with its last task gone (a stored task was deleted) or with one task
\* more (a task was created); TodoList keeps its currentPage
CollectionRefetched(n) ==
    /\ ViewIdle
    /\ n \in 0..MaxTodos
    /\ n \in {Len(todos) - 1, Len(todos) + 1}
    /\ todos' = ViewTodos(n)
    /\ UNCHANGED <<store, now, calls, writes, faults, navs, listQ, route,
                   detailQ, itemBusy, detailBusy, ret, edits>>
    /\ UNCHANGED <<view, form>>

ViewNext ==
    \/ \E n \in 0..MaxTodos : CollectionRefetched(n)
    \/ \E q \in SearchStrings : SetSearchQuery(q)
    \/ ClearSearch
    \/ \E f \in Statuses : SetFilterStatus(f)
    \/ PreviousPage
    \/ NextPage
    \/ \E page \in 1..(MaxTodos \div TodosPerPage + 1) : GoToPage(page)
    \/ ResetPage

ViewSpec == ViewInit /\ [][ViewNext]_vars

\* React runs the effects of every committed render
ViewLiveSpec == ViewSpec /\ WF_vars(ResetPage)

(***************************************************************************)
(* What a step did.                                                        *)
(***************************************************************************)
\* the local-store read of the running fetch-all returned in this step
LocalReadReturned == listQ.fetching /\ listQ.loc = "pending" /\ listQ'.loc = "done"

\* fetch-all resolved in this step: todos' is what it returned
FetchAllResolved == listQ.fetching /\ ~listQ'.fetching /\ listQ'.status = "success"

\* fetch-all failed for good in this step
FetchAllFailed == listQ.fetching /\ ~listQ'.fetching /\ listQ'.status = "error"

\* fetch-one resolved in this step: detailQ'.data is what it returned
FetchOneResolved ==
    /\ detailQ.fetching /\ ~detailQ'.fetching
    /\ detailQ'.status = "success" /\ detailQ'.id = detailQ.id

\* the write of slot s settled in this step: ret' is its outcome
Settled(s) == calls[s].op # "idle" /\ calls'[s].op = "idle"

\* the write of slot s took a step: it was issued, met a response, was
\* retried or settled
WriteStep(s) ==
    \/ calls'[s].op # calls[s].op
    \/ calls'[s].pc # calls[s].pc
    \/ calls'[s].attempt # calls[s].attempt

\* the keys of local storage whose entry the step wrote, added or removed
ChangedKeys ==
    {id \in (DOMAIN store) \cup (DOMAIN store') :
        \/ id \notin DOMAIN store
        \/ id \notin DOMAIN store'
        \/ store'[id] # store[id]}

\* number of tasks of ts that carry the identifier id
Count(ts, id) == Cardinality({k \in 1..Len(ts) : ts[k].id = id})

(***************************************************************************)
(* C1                                                                      *)
(***************************************************************************)
\* C1: fetch-all returns the remote list followed by the local-store list.
\* The list a local-store read returns holds every stored task once, in key
\* order; the collection fetch-all returns is the remote list, in its order,
\* followed by that list, in its order, with nothing dropped or merged.
FetchAllIsRemoteThenLocal ==
    [][/\ (LocalReadReturned /\ listQ'.locOk) =>
            LET r == listQ'.locRes
            IN  /\ Len(r) = Cardinality(DOMAIN store)
                /\ \A id \in DOMAIN store : \E j \in 1..Len(r) : r[j] = store[id]
                /\ \A i, j \in 1..Len(r) : i < j => r[i].id < r[j].id
       /\ FetchAllResolved =>
            /\ Len(todos') = NRemote + Len(listQ.locRes)
            /\ \A i \in 1..NRemote : todos'[i] = RemoteTodos[i]
            /\ \A j \in 1..Len(listQ.locRes) : todos'[NRemote + j] = listQ.locRes[j]
      ]_vars

\* a fetch-all has returned two remote tasks followed by two stored tasks
FetchAllMergedTwoAndTwo ==
    /\ listQ.status = "success" /\ ~listQ.fetching
    /\ Len(todos) = NRemote + 2
    /\ Cardinality(DOMAIN store) = 2
    /\ todos = RemoteTodos \o LocalValues(store)
    /\ todos[NRemote + 1].id < todos[NRemote + 2].id

(***************************************************************************)
(* C2                                                                      *)
(***************************************************************************)
\* C2: if either read of fetch-all fails, fetch-all fails as a whole: a
\* fetch-all whose local-store read failed never resolves with a collection,
\* and a fetch-all that failed shows the error state.
EitherReadFailureFailsFetchAll ==
    [][/\ FetchAllResolved => listQ.locOk
       /\ FetchAllFailed => listQ'.status = "error"
      ]_vars

(***************************************************************************)
(* C3                                                                      *)
(***************************************************************************)
\* C3: a task that create stored and that no delete has removed when a
\* fetch-all reads local storage is in the collection that fetch-all returns,
\* exactly once.
CreatedTaskIsFetchedOnce ==
    [][FetchAllResolved => \A id \in listQ.snap : Count(todos', id) = 1]_vars

DeletedTaskStaysDeleted ==
    [][/\ (ret'.op = "delete" /\ ret'.ok) =>
            (ret'.remote = "ok" /\ ret'.id \notin DOMAIN store')
       /\ \A id \in DOMAIN store' \ DOMAIN store :
            ret'.op = "create" /\ ret'.ok /\ ret'.id = id
      ]_vars

UpdateOfUnstoredForwards ==
    [][\A s \in Slots :
            (/\ calls[s].op = "update" /\ calls[s].pc = "remote"
             /\ calls[s].id \notin DOMAIN store
             /\ calls'[s] # calls[s]) =>
                /\ store' = store
                /\ calls'[s].pc # "set"
                /\ (Settled(s) /\ ret'.ok) =>
                        /\ ret'.remote = "ok"
                        /\ ret'.value = Some(RemotePut(calls[s].id, Get(calls[s].data)))
                        /\ calls[s].id \notin DOMAIN store'
      ]_vars

\* an update of a remote-origin task has returned the server's response and
\* local storage is as it was
UpdatedUnstoredTask ==
    /\ ret.op = "update" /\ ret.ok
    /\ RemoteHas(ret.id)
    /\ ret.value = Some(RemotePut(ret.id, Get(ret.data)))
    /\ store = InitStore

(***************************************************************************)
(* C9                                                                      *)
(***************************************************************************)
\* C9: a fetch-one that starts after a successful update changed the
\* completion flag of a remote-origin task, with no later update of the task,
\* returns the task with the new completion flag.
ToggledRemoteTaskReadsBack ==
    [][FetchOneResolved =>
            LET id == detailQ.id
            IN  (/\ id \in DOMAIN detailQ.since
                 /\ id \in DOMAIN edits
                 /\ edits[id] = detailQ.since[id]
                 /\ edits[id].completed # RemoteTodo(id).completed) =>
                    Get(detailQ'.data).completed = edits[id].completed
      ]_vars

(***************************************************************************)
(* C10                                                                     *)
(***************************************************************************)
\* C10: a fetch-all that starts after a remote-origin task was edited, with
\* no later edit of the task, returns a collection that shows the edit under
\* the task's identifier.
EditedRemoteTaskIsFetched ==
    [][FetchAllResolved =>
            \A id \in DOMAIN listQ.since :
                (id \in DOMAIN edits /\ edits[id] = listQ.since[id]) =>
                    \E k \in 1..Len(todos') :
                        /\ todos'[k].id = id
                        /\ todos'[k].title = edits[id].title
                        /\ todos'[k].completed = edits[id].completed
      ]_vars

(***************************************************************************)
(* C11                                                                     *)
(***************************************************************************)
\* the title has the search string in it, letter case set aside
ContainsIgnoringCase(str, q) ==
    \E i \in 0..(Len(str) - Len(q)) :
        \A j \in 1..Len(q) : LowerOf(str[i + j]) = LowerOf(q[j])

\* C11 (as stated): for every non-empty search string, strings made only of
\* whitespace included, every task of the filtered result has a title that
\* contains the search string, compared case-insensitively.
EveryResultContainsSearch ==
    searchQuery # <<>> =>
        \A k \in 1..Len(filteredTodos) :
            ContainsIgnoringCase(filteredTodos[k].title, searchQuery)

\* C11 (amended): for every search string that is not empty after trimming,
\* every task of the filtered result has a title that contains the search
\* string as typed, leading and trailing whitespace included, compared
\* case-insensitively; a search string that is empty or made only of
\* whitespace restricts nothing.
EveryResultContainsTrimmableSearch ==
    /\ Trim(searchQuery) # <<>> =>
            \A k \in 1..Len(filteredTodos) :
                ContainsIgnoringCase(filteredTodos[k].title, searchQuery)
    /\ Trim(searchQuery) = <<>> =>
            FilteredTodos(todos, searchQuery, "all") = todos

\* a search string with a leading blank has kept some tasks and dropped others
SearchedWithLeadingBlank ==
    /\ Trim(searchQuery) # <<>>
    /\ Head(searchQuery) = " "
    /\ filterStatus = "all"
    /\ filteredTodos # <<>>
    /\ Len(filteredTodos) < Len(todos)

(***************************************************************************)
(* C12                                                                     *)
(***************************************************************************)
\* the text-search predicate of a search string
SearchPredicate(todo, q) == Trim(q) = <<>> \/ ContainsIgnoringCase(todo.title, q)

\* the status predicate of a status filter
StatusPredicate(todo, f) ==
    \/ f = "all"
    \/ f = "completed" /\ todo.completed
    \/ f = "pending" /\ ~todo.completed

\* C12: the filtered result is the tasks of the merged collection that
\* satisfy both the text-search predicate and the status predicate, in their
\* original order, and it is the same whichever predicate is applied first.
FilterIsConjunctionOfPredicates ==
    LET bySearch == SelectSeq(todos, LAMBDA t : SearchPredicate(t, searchQuery))
        byStatus == SelectSeq(todos, LAMBDA t : StatusPredicate(t, filterStatus))
    IN  /\ filteredTodos =
               SelectSeq(todos, LAMBDA t : SearchPredicate(t, searchQuery)
                                           /\ StatusPredicate(t, filterStatus))
        /\ filteredTodos =
               SelectSeq(bySearch, LAMBDA t : StatusPredicate(t, filterStatus))
        /\ filteredTodos =
               SelectSeq(byStatus, LAMBDA t : SearchPredicate(t, searchQuery))
        /\ \A i, j \in 1..Len(filteredTodos) :
               i < j => filteredTodos[i].id < filteredTodos[j].id

\* both predicates are in force and each one drops tasks the other keeps
BothPredicatesRestrict ==
    /\ Trim(searchQuery) # <<>>
    /\ filterStatus = "completed"
    /\ filteredTodos # <<>>
    /\ Len(filteredTodos) < Len(FilteredTodos(todos, searchQuery, "all"))
    /\ Len(filteredTodos) < Len(FilteredTodos(todos, <<>>, filterStatus))

(***************************************************************************)
(* C13                                                                     *)
(***************************************************************************)
\* C13: every change of the search string or of the status filter, from any
\* current page, makes the page-reset effect due; the effect is the next
\* thing that happens, it sets the current page to 1 and leaves the search
\* string and the filter alone, and it does happen.
FilterChangeResetsPage ==
    /\ [][/\ (searchQuery' # searchQuery \/ filterStatus' # filterStatus) => pageReset'
          /\ pageReset =>
                /\ currentPage' = 1 /\ ~pageReset'
                /\ searchQuery' = searchQuery /\ filterStatus' = filterStatus
         ]_vars
    /\ (pageReset ~> (~pageReset /\ currentPage = 1))

\* the search string or the filter was changed on page 3
ChangedFilterOnPageThree == pageReset /\ currentPage = 3

(***************************************************************************)
(* C14                                                                     *)
(***************************************************************************)
\* C14: the page count is the ceiling of the filtered count over the page
\* size, the least number of pages of that size that hold the filtered
\* tasks: 23 filtered tasks give 3 pages of which page 3 holds 3 tasks, and
\* 0 tasks give 0 pages.
PageCountIsCeiling ==
    LET n == Len(filteredTodos)
    IN  /\ totalPages >= 0
        /\ totalPages * TodosPerPage >= n
        /\ (totalPages - 1) * TodosPerPage < n
        /\ n = 0 => totalPages = 0
        /\ (n = 23 /\ TodosPerPage = 10) =>
                totalPages = 3 /\ Len(PageOf(filteredTodos, 3)) = 3

\* 23 filtered tasks are shown on their third page
TwentyThreeTasksOnPageThree ==
    /\ Len(filteredTodos) = 23
    /\ totalPages = 3
    /\ currentPage = 3
    /\ Len(currentTodos) = 3

(***************************************************************************)
(* C15                                                                     *)
(***************************************************************************)
\* the slices of pages 1 through n, one after the other
RECURSIVE ConcatPages(_, _)
ConcatPages(arr, n) ==
    IF n = 0 THEN <<>> ELSE ConcatPages(arr, n - 1) \o PageOf(arr, n)

\* C15: the slices of pages 1 through the page count, one after the other,
\* are the filtered collection, in order; no task is on two pages, and every
\* page but the last holds exactly page-size tasks.
PagesPartitionFilteredTodos ==
    /\ ConcatPages(filteredTodos, totalPages) = filteredTodos
    /\ \A p \in 1..(totalPages - 1) : Len(PageOf(filteredTodos, p)) = TodosPerPage
    /\ \A p, r \in 1..totalPages :
            p # r => TodoIds(PageOf(filteredTodos, p))
                        \cap TodoIds(PageOf(filteredTodos, r)) = {}
    /\ totalPages > 0 => PageOf(filteredTodos, totalPages) # <<>>

\* the completed tasks fill one page and begin a second
CompletedTasksOnTwoPages ==
    /\ filterStatus = "completed"
    /\ Len(filteredTodos) = 11
    /\ totalPages = 2

(***************************************************************************)
(* C16                                                                     *)
(***************************************************************************)
\* C16: in every reachable state, no two tasks of the merged collection share
\* an identifier.
MergedIdsUnique ==
    \A i, j \in 1..Len(todos) : i # j => todos[i].id # todos[j].id

\* the merged collection holds the remote tasks and more than one local task
MergedRemoteAndLocalTasks ==
    /\ Len(todos) > NRemote + 1
    /\ Cardinality(TodoIds(todos)) = Len(todos)
    /\ \E k \in 1..Len(todos) : RemoteHas(todos[k].id)
    /\ \E k \in 1..Len(todos) : todos[k].id > Epoch

(***************************************************************************)
(* C17                                                                     *)
(***************************************************************************)
\* C17: a successful create gets an identifier that no stored task has, so it
\* overwrites nothing: it increases the number of stored tasks by exactly
\* one.
CreateAddsOneTask ==
    [][(ret'.op = "create" /\ ret'.ok) =>
            /\ ret'.id \notin DOMAIN store
            /\ Cardinality(DOMAIN store') = Cardinality(DOMAIN store) + 1
      ]_vars

(***************************************************************************)
(* C18                                                                     *)
(***************************************************************************)
\* C18 (as stated): a write that fails is not retried: no write is invoked a
\* second time for one user action.
WriteInvokedOnce ==
    \A s \in Slots : calls[s].attempt = 0

\* C18 (amended): a write that fails is invoked once more, automatically and
\* with the same arguments, and nothing is reported at that point; one user
\* action leads to at most two invocations.  A failure is reported only when
\* the second invocation failed too, and the control that issued the write
\* is released then.
FailedWriteRetriedOnce ==
    [][\A s \in Slots :
            LET c == calls[s]
                d == calls'[s]
            IN  /\ d.attempt \in {0, 1}
                /\ (c.op # "idle" /\ d.op # "idle" /\ d.attempt # c.attempt) =>
                        /\ d.attempt = c.attempt + 1
                        /\ d.op = c.op /\ d.id = c.id /\ d.data = c.data
                        /\ d.pc = "remote"
                        /\ ret' = NoRet
                /\ (Settled(s) /\ ~ret'.ok) =>
                        /\ c.attempt = 1
                        /\ ret'.op = c.op /\ ret'.id = c.id
                        /\ (c.src = "item" /\ c.inst) => c.id \notin itemBusy'
                        /\ (c.src = "detail" /\ c.inst) => ~detailBusy'
      ]_vars

\* a delete has failed twice and its failure is reported
DeleteFailedAfterRetry ==
    /\ ret.op = "delete" /\ ~ret.ok
    /\ ret.id \in DOMAIN store
    /\ ret.id \notin itemBusy

OneWritePerTask ==
    /\ \A s \in Slots :
            (/\ calls[s].op \in {"update", "delete"}
             /\ route = "list" /\ ListView = "list"
             /\ calls[s].id \in TodoIds(todos)) => calls[s].id \in itemBusy
    /\ \A s, t \in Slots :
            (/\ s # t
             /\ calls[s].op \in {"update", "delete"}
             /\ calls[t].op \in {"update", "delete"}) => calls[s].id # calls[t].id

(***************************************************************************)
(* C21                                                                     *)
(***************************************************************************)
\* C21: no data-access operation hides an underlying failure. A local-store
\* read that returns a list met no failure of the store, a read that failed
\* puts its query into the error state, and a write that failed reports the
\* operation that failed and, for update and delete, the identifier.
FailuresReachTheCaller ==
    [][/\ LocalReadReturned => listQ'.locOk
       /\ FetchAllFailed => listQ'.status = "error"
       /\ \A s \in Slots :
            (Settled(s) /\ ~ret'.ok) =>
                /\ ret'.op = calls[s].op
                /\ calls[s].op \in {"update", "delete"} => ret'.id = calls[s].id
      ]_vars

(***************************************************************************)
(* C22                                                                     *)
(***************************************************************************)
\* C22: no error state is terminal. A fetch-all that failed for good shows
\* the "failed to load" state; in that state the retry can be taken, it
\* issues both reads of fetch-all anew, and a fetch-all that resolves shows
\* the list it returned. In the not-found view of a task the way back to the
\* list can be taken, and it leads to the list route.
ErrorStatesAreLeft ==
    /\ [](route = "list" /\ ListView = "error" /\ ~listQ.fetching
            => ENABLED ListTryAgain)
    /\ [](route = "detail" /\ DetailView = "error"
            => ENABLED (\E stale \in BOOLEAN : BackToList(stale)))
    /\ [][/\ FetchAllFailed => ListView' = "error"
          /\ (route = "list" /\ route' = "list" /\ ListView = "error"
              /\ ~listQ.fetching /\ listQ'.fetching)
                => listQ'.loc = "pending" /\ listQ'.failures = 0
          /\ FetchAllResolved
                => ListView' = "list"
                   /\ todos' = Combine(RemoteTodos, listQ.locRes)
          /\ (route = "detail" /\ DetailView = "error" /\ route' # route)
                => route' = "list"
         ]_vars

\* the retry was taken in the error state of the first load
ListRetryIssued ==
    /\ route = "list" /\ listQ.fetching /\ listQ.loc = "pending"
    /\ listQ.failures = 0 /\ ~listQ.hasData
    /\ faults = 1 /\ writes = 0 /\ navs = 0

(***************************************************************************)
(* C24                                                                     *)
(***************************************************************************)
\* C24: in every reachable state every task in local storage has a
\* non-empty title, whatever was typed into the create form and the item
\* editor.
EveryStoredTitleNonEmpty ==
    \A id \in DOMAIN store : store[id].title # <<>>

\* the stored task was given a new title by the editor and a task typed with
\* blanks around its title was created
StoredEditedAndCreated ==
    /\ Epoch \in DOMAIN store /\ store[Epoch].title = TitleA
    /\ \E id \in DOMAIN store : id > Epoch /\ store[id].title = TitleB

(***************************************************************************)
(* C25                                                                     *)
(***************************************************************************)
\* C25: an invalid create submission is prevented. A submit of a title whose
\* trimmed form is empty or shorter than 3 characters sets a validation
\* error, issues no create (no request, no local write) and leaves the form
\* open with the typed title; no create in flight carries such a title.
InvalidSubmitIsPrevented ==
    /\ [][(HandleSubmit /\ Len(Trim(title)) < 3) =>
            /\ error' \in {EmptyTitleError, ShortTitleError}
            /\ calls' = calls /\ writes' = writes /\ store' = store
            /\ isFormOpen' /\ title' = title
         ]_vars
    /\ [](\A s \in Slots :
            calls[s].op = "create" => Len(Get(calls[s].data).title) >= 3)

\* a title of two characters was submitted and refused
ShortTitleRefused ==
    /\ isFormOpen /\ title = <<"g", "o">> /\ error = ShortTitleError
    /\ writes = 0 /\ store = InitStore

(***************************************************************************)
(* C23                                                                     *)
(***************************************************************************)
\* C23: locally created tasks persist across sessions. The first fetch-all
\* of a session that resolves, in a session that follows one in which
\* writes were issued, returns every task that is in local storage, with
\* the fields it is stored with.
StoredTasksSurviveRestart ==
    [][(FetchAllResolved /\ ~listQ.hasData /\ writes > 0) =>
          \A id \in DOMAIN store :
              \E k \in 1..Len(todos') : todos'[k] = store[id]
      ]_vars

(***************************************************************************)
(* C26                                                                     *)
(***************************************************************************)
\* C26: the current page is always in range. Once the effects of the last
\* render have run, after any sequence of search and filter changes, page
\* clicks and refetches that follow creates and deletes, 1 <= currentPage <=
\* max(1, page count), so the page shown is empty only when the filtered
\* collection is empty.
CurrentPageInRange ==
    ViewIdle =>
        /\ 1 <= currentPage
        /\ currentPage <= (IF totalPages > 1 THEN totalPages ELSE 1)
        /\ currentTodos = <<>> => filteredTodos = <<>>

(***************************************************************************)
(* C27                                                                     *)
(***************************************************************************)
\* C27: a write that ends in an error has not written to local storage. The
\* only step of a create, an update or a delete that changes local storage
\* is the step in which it succeeds: its issue, the responses it meets, its
\* retry and its failure leave every entry as it was.
FailedWriteLeavesStore ==
    [][\A s \in Slots :
          (WriteStep(s) /\ ~(Settled(s) /\ ret'.ok)) => store' = store
      ]_vars

\* the update of the stored task failed at the storage access, after the
\* remote request had succeeded, and the stored task is as it was
StoredUpdateFailed ==
    /\ ret.op = "update" /\ ~ret.ok /\ ret.remote = "ok"
    /\ ret.id = Epoch /\ store = InitStore

(***************************************************************************)
(* C28                                                                     *)
(***************************************************************************)
\* C28: every write touches at most one entry of local storage. A step
\* changes at most one entry; an update or a delete that succeeds changes no
\* entry but the one of its identifier, and a create that succeeds changes
\* no entry but the one of the identifier it generated.
WriteTouchesOneEntry ==
    [][/\ Cardinality(ChangedKeys) <= 1
       /\ \A s \in Slots :
            Settled(s) =>
                ChangedKeys \subseteq
                    (IF calls[s].op = "create" THEN {ret'.id}
                     ELSE {calls[s].id})
      ]_vars

\* the stored task was deleted and a created task is still stored
DeletedBesideCreated ==
    /\ ret.op = "delete" /\ ret.ok /\ ret.id = Epoch
    /\ Epoch \notin DOMAIN store /\ store # EmptyStore

(***************************************************************************)
(* C29                                                                     *)
(***************************************************************************)
\* no write and no fetch-all is in flight and the list is displayed: nothing
\* more happens unless the user acts
ListAtRest ==
    /\ route = "list" /\ ListView = "list" /\ ~listQ.fetching
    /\ \A s \in Slots : calls[s].op = "idle"

\* C29: the displayed collection converges to the stored state. Every
\* create, update or delete that succeeds invalidates the cached collection:
\* on the list route a fetch-all is started anew, elsewhere the cache is
\* marked for a refetch. While the reads succeed, whenever the writes have
\* stopped and the list is displayed with no fetch-all in flight, the
\* displayed collection is the remote list followed by the current contents
\* of local storage.
DisplayedListConverges ==
    /\ [][\A s \in Slots :
            (Settled(s) /\ ret'.ok) =>
                IF route' = "list"
                THEN listQ'.fetching /\ listQ'.loc = "pending"
                ELSE listQ'.invalid
         ]_vars
    /\ [](ListAtRest => todos = Combine(RemoteTodos, LocalValues(store)))

====
